---- MODULE Spec2Model ----
(***************************************************************************)
(* State-machine model of the e-commerce backend of src/main.py: the       *)
(* document collections "user", "product", "cart" and "order", and the     *)
(* request handlers signup, login, create_product, get_cart, add_to_cart   *)
(* and checkout.                                                            *)
(*                                                                         *)
(* Conventions.                                                            *)
(*  - A collection is the sequence of its documents in insertion order;    *)
(*    find_one returns the first match in that order.  No handler deletes  *)
(*    a document.                                                          *)
(*  - A store-assigned _id (and its string form) is a positive integer.    *)
(*  - A product_id string is an integer: Malformed (0) stands for any      *)
(*    string that is not a well-formed ObjectId, k >= 1 is the string form *)
(*    of the _id k.                                                        *)
(*  - Money is an integer number of thousandths (10000 is 10.0), so that   *)
(*    round(total, 2) is a real rounding, to a multiple of 10.             *)
(*  - An absent optional value (Python None) is the string "None".         *)
(*  - The store connection is configured (db is set), and the created_at / *)
(*    updated_at timestamps are not part of the state.                     *)
(***************************************************************************)
EXTENDS Integers, Sequences, FiniteSets, TLC

\* ---------------------------------------------------------------- bounds
\* MaxRequests: requests served in one run (MaxConcRequests when their steps
\* interleave); MaxItems: lines of one cart;
\* MaxProducts: documents of the product collection.
MaxRequests == 5
MaxConcRequests == 3
MaxItems == 3
MaxProducts == 1

\* ---------------------------------------------------------------- inputs
None == "None"
Malformed == 0

UserIds == {"u1", "u2"}
ProductIdStrings == {Malformed, 1}
Quantities == {0, 2}
Sizes == {"M"}
Colors == {None}
Titles == {"Tee"}
PriceInputs == {-1000, 9999, 10000}
Addresses == {None}
EmailInputs == {"a@x.com", "a@X.COM", "b@x.com"}
Passwords == {"pw1", "pw2"}
Names == {"Alice"}
Salts == {"s1", "s2"}
Times == {100, 200}
Workers == {"w1", "w2"}

AddToCartRequest == [product_id : ProductIdStrings, quantity : Quantities,
                     size : Sizes, color : Colors]
NoItem == [product_id |-> Malformed, quantity |-> 1, size |-> None, color |-> None]

\* served counts the requests handled so far (it bounds a run, nothing reads it).
\* signedUp is a history variable: the (email, password) pairs of the
\* signup requests that returned successfully.
\* req is the state of the requests in flight, one per worker: the handler's
\* position and its local variables.
VARIABLES user, product, cart, order, resp, authResp, served, signedUp, req

vars == <<user, product, cart, order, resp, authResp, served, signedUp, req>>

\* ---------------------------------------------------------------- store
Min(S) == CHOOSE x \in S : \A y \in S : x <= y

RECURSIVE SumSeq(_)
SumSeq(s) == IF s = <<>> THEN 0 ELSE Head(s) + SumSeq(Tail(s))

\* create_document(collection, doc): insert with a fresh store-assigned _id.
NewId(coll) == Len(coll) + 1
create_document(coll, doc) == Append(coll, [doc EXCEPT !._id = NewId(coll)])

\* db["cart"].find_one({"user_id": u}): the first cart of u, or none.
NoCart == [found |-> FALSE, _id |-> 0, user_id |-> None, items |-> <<>>]
find_one_cart(coll, u) ==
    LET hits == {i \in 1..Len(coll) : coll[i].user_id = u}
    IN  IF hits = {} THEN NoCart
        ELSE [found |-> TRUE, _id |-> coll[Min(hits)]._id,
              user_id |-> u, items |-> coll[Min(hits)].items]

\* db["product"].find_one({"_id": ObjectId(pid)}) guarded by ObjectId.is_valid.
NoProduct == [found |-> FALSE, title |-> None, price |-> 0]
ObjectIdIsValid(pid) == pid # Malformed
find_one_product(coll, pid) ==
    LET hits == {i \in 1..Len(coll) : coll[i]._id = pid}
    IN  IF ObjectIdIsValid(pid) /\ hits # {}
        THEN [found |-> TRUE, title |-> coll[Min(hits)].title,
              price |-> coll[Min(hits)].price]
        ELSE NoProduct

\* Mutant: the update pushes the new line onto the stored sequence.
update_one_by_idPushing(coll, id, items) ==
    [j \in 1..Len(coll) |->
        IF coll[j]._id = id
        THEN [coll[j] EXCEPT !.items = Append(@, items[Len(items)])] ELSE coll[j]]

\* update_one({"_id": id}, {"$set": {"items": items}})
update_one_by_id(coll, id, items) ==
    [j \in 1..Len(coll) |->
        IF coll[j]._id = id THEN [coll[j] EXCEPT !.items = items] ELSE coll[j]]

\* Mutant: the clearing update matches no document.
update_one_by_userNoMatch(coll, u, items) == coll

\* update_one({"user_id": u}, {"$set": {"items": []}}): the first match only.
update_one_by_user(coll, u, items) ==
    LET hits == {i \in 1..Len(coll) : coll[i].user_id = u}
    IN  [j \in 1..Len(coll) |->
            IF hits # {} /\ j = Min(hits)
            THEN [coll[j] EXCEPT !.items = items] ELSE coll[j]]

\* ---------------------------------------------------------------- schemas
\* CartItem: quantity is Field(1, ge = 1).
CartItemValid(item) == item.quantity >= 1
\* Cart(user_id, items)
CartDoc(u, items) == [_id |-> 0, user_id |-> u, items |-> items]
\* Product: price is Field(..., ge = 0).
ProductValid(p) == p.price >= 0

\* ---------------------------------------------------------------- responses
Resp(op, u, arg, status, detail, id, items, total) ==
    [op |-> op, user_id |-> u, arg |-> arg, status |-> status, detail |-> detail,
     id |-> id, items |-> items, total |-> total]
NoResp == Resp("none", None, NoItem, 0, None, 0, <<>>, 0)

\* ---------------------------------------------------------------- catalog
create_product(title, price) ==
    /\ Len(product) < MaxProducts
    /\ IF ProductValid([title |-> title, price |-> price])
       THEN /\ product' = create_document(product, [_id |-> 0, title |-> title, price |-> price])
            /\ resp' = Resp("create_product", None, NoItem, 200, None, NewId(product), <<>>, 0)
       ELSE /\ product' = product
            /\ resp' = Resp("create_product", None, NoItem, 422, "validation", 0, <<>>, 0)
    /\ UNCHANGED <<user, cart, order, authResp, signedUp, req>>

\* ---------------------------------------------------------------- cart
\* Mutant: get_cart creates a cart without looking one up.
GetCartStoreAlwaysCreates(coll, c, u) == create_document(coll, CartDoc(u, <<>>))

\* get_cart after its find_one returned c.
\* get_cart: the cart collection it leaves.
GetCartStore(coll, c, u) ==
    IF ~c.found THEN create_document(coll, CartDoc(u, <<>>)) ELSE coll
GetCartResp(coll, c, u) ==
    IF ~c.found THEN Resp("get_cart", u, NoItem, 200, None, NewId(coll), <<>>, 0)
    ELSE Resp("get_cart", u, NoItem, 200, None, c._id, c.items, 0)

get_cart(u) ==
    LET c == find_one_cart(cart, u) IN
    /\ cart' = GetCartStore(cart, c, u)
    /\ resp' = GetCartResp(cart, c, u)
    /\ UNCHANGED <<user, product, order, authResp, signedUp, req>>

\* add_to_cart after its find_one returned c.  On the create path the item
\* goes through CartItem(**item); on the append path the raw dict is stored.
AddToCartOk(c, item) == c.found \/ CartItemValid(item)
AddToCartItems(c, item) == IF c.found THEN Append(c.items, item) ELSE <<item>>
\* Mutant: a line equal in product, size and color absorbs the quantity.
AddToCartStoreMerging(coll, c, u, item) ==
    LET same == {k \in 1..Len(c.items) :
                    /\ c.items[k].product_id = item.product_id
                    /\ c.items[k].size = item.size
                    /\ c.items[k].color = item.color}
    IN  IF ~c.found
        THEN IF CartItemValid(item) THEN create_document(coll, CartDoc(u, <<item>>)) ELSE coll
        ELSE IF same = {} THEN update_one_by_id(coll, c._id, Append(c.items, item))
        ELSE update_one_by_id(coll, c._id,
                [c.items EXCEPT ![Min(same)].quantity = @ + item.quantity])
AddToCartStore(coll, c, u, item) ==
    IF ~c.found
    THEN IF CartItemValid(item) THEN create_document(coll, CartDoc(u, <<item>>)) ELSE coll
    ELSE update_one_by_id(coll, c._id, Append(c.items, item))
AddToCartResp(coll, c, u, item) ==
    IF ~AddToCartOk(c, item)
    THEN Resp("add_to_cart", u, item, 500, "validation", 0, <<>>, 0)
    ELSE Resp("add_to_cart", u, item, 200, None,
              IF c.found THEN c._id ELSE NewId(coll), AddToCartItems(c, item), 0)

add_to_cart(u, item) ==
    LET c == find_one_cart(cart, u) IN
    /\ Len(c.items) < MaxItems
    /\ cart' = AddToCartStore(cart, c, u, item)
    /\ resp' = AddToCartResp(cart, c, u, item)
    /\ UNCHANGED <<user, product, order, authResp, signedUp, req>>

\* ---------------------------------------------------------------- checkout
\* Mutant: a line whose product is not found gets no default title.
OrderItemNoDefault(prod, it) ==
    [product_id |-> it.product_id, title |-> prod.title,
     unit_price |-> IF prod.found THEN prod.price ELSE 0,
     quantity |-> it.quantity, size |-> it.size, color |-> it.color]

\* Mutant: the quantity is read under a key the cart line does not have.
OrderItemDefaultQuantity(prod, it) ==
    [product_id |-> it.product_id,
     title |-> IF prod.found THEN prod.title ELSE "Item",
     unit_price |-> IF prod.found THEN prod.price ELSE 0,
     quantity |-> 1, size |-> it.size, color |-> it.color]

\* One iteration of the loop over the cart items: the order line of item it.
OrderItem(prod, it) ==
    [product_id |-> it.product_id,
     title |-> IF prod.found THEN prod.title ELSE "Item",
     unit_price |-> IF prod.found THEN prod.price ELSE 0,
     quantity |-> it.quantity,
     size |-> it.size,
     color |-> it.color]
\* Mutant: the quantity is left out of a line's amount.
LineTotalIgnoringQuantity(oi) == oi.unit_price
LineTotal(oi) == oi.unit_price * oi.quantity
OrderItems(prods, items) ==
    [k \in 1..Len(items) |-> OrderItem(find_one_product(prods, items[k].product_id), items[k])]
Total(ois) == SumSeq([k \in 1..Len(ois) |-> LineTotal(ois[k])])

\* round(total, 2): the nearest multiple of 10 thousandths.  A tie (…5) is
\* decided by the binary representation of the float, so either neighbour
\* is a possible outcome.
Round2(t) ==
    LET r == t % 10 IN
    IF r = 0 THEN {t}
    ELSE IF r < 5 THEN {t - r}
    ELSE IF r > 5 THEN {t - r + 10}
    ELSE {t - r, t - r + 10}

\* Mutant: only a missing cart counts as empty.
CheckoutEmptyOnlyMissing(c) == ~c.found
CheckoutEmpty(c) == ~c.found \/ c.items = <<>>
\* Mutant: the order keeps the schema's default status.
OrderDocPending(u, ois, total, addr) ==
    [_id |-> 0, user_id |-> u, items |-> ois, total |-> total, status |-> "pending",
     shipping_address |-> addr]
OrderDoc(u, ois, total, addr) ==
    [_id |-> 0, user_id |-> u, items |-> ois, total |-> total, status |-> "paid",
     shipping_address |-> addr]

checkout(u, addr) ==
    LET c == find_one_cart(cart, u) IN
    IF CheckoutEmpty(c)
    THEN /\ resp' = Resp("checkout", u, NoItem, 400, "Cart is empty", 0, <<>>, 0)
         /\ UNCHANGED <<user, product, cart, order, authResp, signedUp, req>>
    ELSE /\ \E total \in Round2(Total(OrderItems(product, c.items))) :
              /\ order' = create_document(order, OrderDoc(u, OrderItems(product, c.items), total, addr))
              /\ resp' = Resp("checkout", u, NoItem, 200, "paid", NewId(order), <<>>, total)
         /\ cart' = update_one_by_user(cart, u, <<>>)
         /\ UNCHANGED <<user, product, authResp, signedUp, req>>

\* ---------------------------------------------------------------- auth
\* EmailStr: the validated address keeps its local part and has its domain
\* lower-cased.
EmailStr(e) == IF e = "a@X.COM" THEN "a@x.com" ELSE e

\* hash_password / verify_password (bcrypt): a hash carries its salt and a
\* digest of salt and password; the digest is taken to be injective.
Digest(salt, password) == <<salt, password>>
hash_password(password, salt) == [salt |-> salt, digest |-> Digest(salt, password)]
\* Mutant: any password verifies.
verify_passwordAny(password, hashed) == TRUE
verify_password(password, hashed) == hashed.digest = Digest(hashed.salt, password)

\* create_token(user_id) at time now.
create_token(uid, now) == <<"tok", uid, now>>
NoToken == <<"tok", 0, 0>>

AuthResp(op, email, password, status, detail, uid, name, token) ==
    [op |-> op, email |-> email, password |-> password, status |-> status,
     detail |-> detail, user_id |-> uid, name |-> name, token |-> token]
NoAuthResp == AuthResp("none", None, None, 0, None, 0, None, NoToken)

\* db["user"].find_one({"email": e}): the first user with that email, or none.
NoUser == [found |-> FALSE, _id |-> 0, name |-> None, email |-> None,
           password_hash |-> [salt |-> None, digest |-> <<None, None>>]]
find_one_user(coll, e) ==
    LET hits == {i \in 1..Len(coll) : coll[i].email = e}
    IN  IF hits = {} THEN NoUser
        ELSE [found |-> TRUE, _id |-> coll[Min(hits)]._id, name |-> coll[Min(hits)].name,
              email |-> coll[Min(hits)].email,
              password_hash |-> coll[Min(hits)].password_hash]

UserDoc(name, email, hashed) ==
    [_id |-> 0, name |-> name, email |-> email, password_hash |-> hashed,
     address |-> None, is_active |-> TRUE]

\* Mutant: signup inserts without the existence check.
SignupStoreUnchecked(coll, existing, name, email, hashed) ==
    create_document(coll, UserDoc(name, email, hashed))

\* signup after its find_one returned existing.
SignupStore(coll, existing, name, email, hashed) ==
    IF existing.found THEN coll ELSE create_document(coll, UserDoc(name, email, hashed))
SignupResp(coll, existing, name, email, password, now) ==
    IF existing.found
    THEN AuthResp("signup", email, password, 400, "Email already registered", 0, None, NoToken)
    ELSE AuthResp("signup", email, password, 200, None, NewId(coll), name,
                  create_token(NewId(coll), now))

signup(name, rawEmail, password, salt, now) ==
    LET email == EmailStr(rawEmail)
        existing == find_one_user(user, email)
    IN  /\ user' = SignupStore(user, existing, name, email, hash_password(password, salt))
        /\ authResp' = SignupResp(user, existing, name, email, password, now)
        /\ signedUp' = IF existing.found THEN signedUp
                       ELSE signedUp \cup {<<email, password>>}
        /\ UNCHANGED <<product, cart, order, resp, req>>

LoginOk(u, password) == u.found /\ verify_password(password, u.password_hash)
\* Mutant: an unknown email gets a response of its own.
LoginRespTellsUnknown(u, email, password, now) ==
    IF LoginOk(u, password)
    THEN AuthResp("login", email, password, 200, None, u._id, u.name, create_token(u._id, now))
    ELSE IF ~u.found
    THEN AuthResp("login", email, password, 404, "User not found", 0, None, NoToken)
    ELSE AuthResp("login", email, password, 401, "Invalid credentials", 0, None, NoToken)
LoginResp(u, email, password, now) ==
    IF LoginOk(u, password)
    THEN AuthResp("login", email, password, 200, None, u._id, u.name, create_token(u._id, now))
    ELSE AuthResp("login", email, password, 401, "Invalid credentials", 0, None, NoToken)

login(rawEmail, password, now) ==
    LET email == EmailStr(rawEmail)
        u == find_one_user(user, email)
    IN  /\ authResp' = LoginResp(u, email, password, now)
        /\ UNCHANGED <<user, product, cart, order, resp, signedUp, req>>

\* A worker with no request in flight (the handler's locals at their defaults);
\* last is the response of the request the worker served last.
IdleReq == [pc |-> "idle", user_id |-> None, item |-> NoItem, addr |-> None,
            c |-> NoCart, ois |-> <<>>, id |-> 0, total |-> 0, last |-> NoResp,
            name |-> None, email |-> None, password |-> None, existing |-> NoUser]
\* The worker has returned response r.
Returned(r) == [IdleReq EXCEPT !.last = r]


\* ---------------------------------------------------------------- specification
Init ==
    /\ user = <<>>
    /\ product = <<>>
    /\ cart = <<>>
    /\ order = <<>>
    /\ resp = NoResp
    /\ authResp = NoAuthResp
    /\ signedUp = {}
    /\ req = [w \in Workers |-> IdleReq]
    /\ served = 0

Serve ==
    /\ served < MaxRequests
    /\ served' = served + 1

Next ==
    \/ \E t \in Titles, p \in PriceInputs : Serve /\ create_product(t, p)
    \/ \E u \in UserIds : Serve /\ get_cart(u)
    \/ \E u \in UserIds, item \in AddToCartRequest : Serve /\ add_to_cart(u, item)
    \/ \E u \in UserIds, a \in Addresses : Serve /\ checkout(u, a)

Spec == Init /\ [][Next]_vars

\* The auth endpoints, requests handled one after another.
AuthNext ==
    \/ \E n \in Names, e \in EmailInputs, p \in Passwords, s \in Salts, t \in Times :
          Serve /\ signup(n, e, p, s, t)
    \/ \E e \in EmailInputs, p \in Passwords, t \in Times : Serve /\ login(e, p, t)

AuthSpec == Init /\ [][AuthNext]_vars

\* ---------------------------------------------------------------- interleaved requests
\* The cart and checkout handlers as the request layer runs them: each worker
\* serves one request at a time, and a handler takes one step per store
\* operation, so the steps of two requests interleave.

ConcServe ==
    /\ served < MaxConcRequests
    /\ served' = served + 1

\* get_cart: cart = db["cart"].find_one({"user_id": user_id})
GetCartFind(w, u) ==
    /\ req[w].pc = "idle"
    /\ ConcServe
    /\ req' = [req EXCEPT ![w] = [req[w] EXCEPT !.pc = "get_cart", !.user_id = u,
                                                 !.c = find_one_cart(cart, u)]]
    /\ UNCHANGED <<user, product, cart, order, resp, authResp, signedUp>>

\* get_cart: the rest, create_document on the not-found path, and return.
GetCartReturn(w) ==
    /\ req[w].pc = "get_cart"
    /\ cart' = GetCartStore(cart, req[w].c, req[w].user_id)
    /\ resp' = GetCartResp(cart, req[w].c, req[w].user_id)
    /\ req' = [req EXCEPT ![w] = Returned(resp')]
    /\ UNCHANGED <<user, product, order, authResp, signedUp, served>>

\* add_to_cart: cart = db["cart"].find_one({"user_id": user_id})
AddToCartFind(w, u, item) ==
    /\ req[w].pc = "idle"
    /\ Len(find_one_cart(cart, u).items) < MaxItems
    /\ ConcServe
    /\ req' = [req EXCEPT ![w] = [req[w] EXCEPT !.pc = "add_to_cart", !.user_id = u,
                                                 !.item = item,
                                                 !.c = find_one_cart(cart, u)]]
    /\ UNCHANGED <<user, product, cart, order, resp, authResp, signedUp>>

\* add_to_cart: the rest, create_document or update_one, and return.
AddToCartReturn(w) ==
    /\ req[w].pc = "add_to_cart"
    /\ cart' = AddToCartStore(cart, req[w].c, req[w].user_id, req[w].item)
    /\ resp' = AddToCartResp(cart, req[w].c, req[w].user_id, req[w].item)
    /\ req' = [req EXCEPT ![w] = Returned(resp')]
    /\ UNCHANGED <<user, product, order, authResp, signedUp, served>>

\* checkout: cart = db["cart"].find_one(...) and the empty-cart test.
CheckoutFind(w, u, addr) ==
    /\ req[w].pc = "idle"
    /\ ConcServe
    /\ LET c == find_one_cart(cart, u) IN
       IF CheckoutEmpty(c)
       THEN /\ resp' = Resp("checkout", u, NoItem, 400, "Cart is empty", 0, <<>>, 0)
            /\ req' = [req EXCEPT ![w] = Returned(resp')]
       ELSE /\ resp' = resp
            /\ req' = [req EXCEPT ![w] = [req[w] EXCEPT !.pc = "checkout_loop",
                                              !.user_id = u, !.addr = addr, !.c = c]]
    /\ UNCHANGED <<user, product, cart, order, authResp, signedUp>>

\* checkout: one iteration of the loop, with its product look-up.
CheckoutResolve(w) ==
    /\ req[w].pc = "checkout_loop"
    /\ Len(req[w].ois) < Len(req[w].c.items)
    /\ LET it == req[w].c.items[Len(req[w].ois) + 1] IN
       req' = [req EXCEPT ![w].ois =
                  Append(@, OrderItem(find_one_product(product, it.product_id), it))]
    /\ UNCHANGED <<user, product, cart, order, resp, authResp, signedUp, served>>

\* checkout: db["order"].insert_one(order_doc)
CheckoutInsert(w) ==
    /\ req[w].pc = "checkout_loop"
    /\ Len(req[w].ois) = Len(req[w].c.items)
    /\ \E total \in Round2(Total(req[w].ois)) :
         /\ order' = create_document(order,
                        OrderDoc(req[w].user_id, req[w].ois, total, req[w].addr))
         /\ req' = [req EXCEPT ![w].pc = "checkout_clear", ![w].id = NewId(order),
                               ![w].total = total]
    /\ UNCHANGED <<user, product, cart, resp, authResp, signedUp, served>>

\* checkout: db["cart"].update_one(...) clearing the cart, and return.
CheckoutClear(w) ==
    /\ req[w].pc = "checkout_clear"
    /\ cart' = update_one_by_user(cart, req[w].user_id, <<>>)
    /\ resp' = Resp("checkout", req[w].user_id, NoItem, 200, "paid", req[w].id, <<>>,
                    req[w].total)
    /\ req' = [req EXCEPT ![w] = Returned(resp')]
    /\ UNCHANGED <<user, product, order, authResp, signedUp, served>>

ConcNext ==
    \/ \E t \in Titles, p \in PriceInputs : ConcServe /\ create_product(t, p)
    \/ \E w \in Workers, u \in UserIds : GetCartFind(w, u)
    \/ \E w \in Workers : GetCartReturn(w)
    \/ \E w \in Workers, u \in UserIds, item \in AddToCartRequest : AddToCartFind(w, u, item)
    \/ \E w \in Workers : AddToCartReturn(w)
    \/ \E w \in Workers, u \in UserIds, a \in Addresses : CheckoutFind(w, u, a)
    \/ \E w \in Workers : CheckoutResolve(w)
    \/ \E w \in Workers : CheckoutInsert(w)
    \/ \E w \in Workers : CheckoutClear(w)

ConcSpec == Init /\ [][ConcNext]_vars

\* ---------------------------------------------------------------- interleaved signups
\* signup: existing = db["user"].find_one({"email": payload.email})
SignupFind(w, name, rawEmail, password) ==
    /\ req[w].pc = "idle"
    /\ ConcServe
    /\ req' = [req EXCEPT ![w] = [req[w] EXCEPT !.pc = "signup", !.name = name,
                                     !.email = EmailStr(rawEmail), !.password = password,
                                     !.existing = find_one_user(user, EmailStr(rawEmail))]]
    /\ UNCHANGED <<user, product, cart, order, resp, authResp, signedUp>>

\* signup: the rest, the duplicate test, hash_password, create_document, return.
SignupReturn(w, salt, now) ==
    /\ req[w].pc = "signup"
    /\ user' = SignupStore(user, req[w].existing, req[w].name, req[w].email,
                           hash_password(req[w].password, salt))
    /\ authResp' = SignupResp(user, req[w].existing, req[w].name, req[w].email,
                              req[w].password, now)
    /\ signedUp' = IF req[w].existing.found THEN signedUp
                   ELSE signedUp \cup {<<req[w].email, req[w].password>>}
    /\ req' = [req EXCEPT ![w] = [IdleReq EXCEPT !.last = req[w].last]]
    /\ UNCHANGED <<product, cart, order, resp, served>>

ConcAuthNext ==
    \/ \E w \in Workers, n \in Names, e \in EmailInputs, p \in Passwords :
          SignupFind(w, n, e, p)
    \/ \E w \in Workers, s \in Salts, t \in Times : SignupReturn(w, s, t)
    \/ \E e \in EmailInputs, p \in Passwords, t \in Times : ConcServe /\ login(e, p, t)

ConcAuthSpec == Init /\ [][ConcAuthNext]_vars

\* ---------------------------------------------------------------- store failures
\* A checkout during which one store call raises.  checkout catches nothing,
\* so the request ends there as an internal error (500); the calls before the
\* failing one have taken effect, the failing call and the ones after have not.
FailPoints == {"cart.find_one", "product.find_one", "order.insert_one", "cart.update_one"}

\* Mutant: the order insert is undone when the cart update fails.
FailedCheckoutOrdersRolledBack(orders, doc, at) == orders

\* The order collection a checkout leaves that fails at store call at.
FailedCheckoutOrders(orders, doc, at) ==
    IF at = "cart.update_one" THEN create_document(orders, doc) ELSE orders

checkout_fails(u, addr, at) ==
    LET c == find_one_cart(cart, u) IN
    /\ at # "cart.find_one" => ~CheckoutEmpty(c)
    /\ at = "product.find_one" =>
         \E k \in 1..Len(c.items) : ObjectIdIsValid(c.items[k].product_id)
    /\ \E total \in Round2(Total(OrderItems(product, c.items))) :
         order' = FailedCheckoutOrders(order,
                     OrderDoc(u, OrderItems(product, c.items), total, addr), at)
    /\ resp' = Resp("checkout", u, NoItem, 500, at, 0, <<>>, 0)
    /\ UNCHANGED <<user, product, cart, authResp, signedUp, req>>

FailNext ==
    \/ \E t \in Titles, p \in PriceInputs : Serve /\ create_product(t, p)
    \/ \E u \in UserIds : Serve /\ get_cart(u)
    \/ \E u \in UserIds, item \in AddToCartRequest : Serve /\ add_to_cart(u, item)
    \/ \E u \in UserIds, a \in Addresses : Serve /\ checkout(u, a)
    \/ \E u \in UserIds, a \in Addresses, at \in FailPoints : Serve /\ checkout_fails(u, a, at)

FailSpec == Init /\ [][FailNext]_vars

\* ---------------------------------------------------------------- one addItem against one checkout
\* The race of one add_to_cart and one checkout of the same user: requests
\* served one after another first create the user's cart (and possibly a
\* product); then worker Adder serves one add_to_cart and worker Buyer one
\* checkout for the owner of that cart, their steps interleaved in any order.
Adder == "w1"
Buyer == "w2"
NotStarted(w) == req[w].pc = "idle" /\ req[w].last.op = "none"

RaceNext ==
    \/ \E u \in UserIds, item \in AddToCartRequest :
          cart = <<>> /\ Serve /\ add_to_cart(u, item)
    \/ \E t \in Titles, p \in PriceInputs :
          NotStarted(Adder) /\ NotStarted(Buyer) /\ Serve /\ create_product(t, p)
    \/ \E item \in AddToCartRequest :
          cart # <<>> /\ NotStarted(Adder) /\ AddToCartFind(Adder, cart[1].user_id, item)
    \/ AddToCartReturn(Adder)
    \/ \E a \in Addresses :
          cart # <<>> /\ NotStarted(Buyer) /\ CheckoutFind(Buyer, cart[1].user_id, a)
    \/ CheckoutResolve(Buyer)
    \/ CheckoutInsert(Buyer)
    \/ CheckoutClear(Buyer)

RaceSpec == Init /\ [][RaceNext]_vars

\* ================================================================ claims
\* Vocabulary of the claims, stated on the collections themselves.
CartsOf(coll, u) == {i \in 1..Len(coll) : coll[i].user_id = u}
ItemsOf(coll, u) ==
    IF CartsOf(coll, u) = {} THEN <<>> ELSE coll[CHOOSE i \in CartsOf(coll, u) : TRUE].items
UsersWith(coll, e) == {i \in 1..Len(coll) : coll[i].email = e}
Resolves(prods, pid) == pid # Malformed /\ \E i \in 1..Len(prods) : prods[i]._id = pid
ProductAt(prods, pid) == prods[CHOOSE i \in 1..Len(prods) : prods[i]._id = pid]
ExactSum(ois) == SumSeq([k \in 1..Len(ois) |-> ois[k].unit_price * ois[k].quantity])
IsRounded2(total, sum) == total % 10 = 0 /\ total - sum <= 5 /\ sum - total <= 5
\* The step just taken served a request of endpoint op.
Served(op) == served' = served + 1 /\ resp'.op = op
AuthServed(op) == served' = served + 1 /\ authResp'.op = op

\* C1: an addItem call with a valid item (quantity >= 1), run on its own,
\* succeeds and leaves exactly one cart of the user whose item sequence is the
\* previous sequence (empty when the user had no cart) with the item appended
\* at the end, never merged into an equal line; the call returns that same
\* sequence and no other user's cart changes.  N calls in a row from no cart
\* therefore leave and return [I1..IN].
C1_AddItemAppendsInCallOrder ==
    [][(Served("add_to_cart") /\ resp'.arg.quantity >= 1) =>
        LET u == resp'.user_id
            expected == Append(ItemsOf(cart, u), resp'.arg)
        IN  /\ resp'.status = 200
            /\ Cardinality(CartsOf(cart', u)) = 1
            /\ ItemsOf(cart', u) = expected
            /\ resp'.items = expected
            /\ \A v \in UserIds \ {u} :
                 CartsOf(cart', v) = CartsOf(cart, v) /\ ItemsOf(cart', v) = ItemsOf(cart, v)
      ]_vars

\* C1 witness: a third addItem returned a three-line cart whose first two
\* lines are identical, and that sequence is the persisted one.
C1_Witness ==
    /\ resp.op = "add_to_cart" /\ resp.status = 200
    /\ Len(resp.items) = 3
    /\ resp.items[1] = resp.items[2]
    /\ \A k \in 1..3 : resp.items[k].quantity >= 1
    /\ Cardinality(CartsOf(cart, resp.user_id)) = 1
    /\ ItemsOf(cart, resp.user_id) = resp.items

\* What a successful checkout leaves: one new order, last in the collection,
\* whose lines mirror the cart lines read, with the product's title and price
\* on every line whose product resolves; exactTotal selects the total the
\* statement asks for, the exact sum or the sum rounded to 2 decimals.
CheckoutCreatesOrder(exactTotal) ==
    LET u == resp'.user_id
        items == ItemsOf(cart, u)
        o == order'[Len(order')]
    IN  /\ Len(order') = Len(order) + 1
        /\ SubSeq(order', 1, Len(order)) = order
        /\ o.user_id = u
        /\ Len(o.items) = Len(items)
        /\ \A k \in 1..Len(items) :
             /\ o.items[k].product_id = items[k].product_id
             /\ o.items[k].quantity = items[k].quantity
             /\ o.items[k].size = items[k].size
             /\ o.items[k].color = items[k].color
             /\ Resolves(product, items[k].product_id) =>
                  /\ o.items[k].unit_price = ProductAt(product, items[k].product_id).price
                  /\ o.items[k].title = ProductAt(product, items[k].product_id).title
        /\ IF exactTotal THEN o.total = ExactSum(o.items)
           ELSE IsRounded2(o.total, ExactSum(o.items))
        /\ resp'.total = o.total
        /\ resp'.id = o._id

\* C2 as stated: a successful checkout persists exactly one new order that
\* mirrors the cart, priced from the products, whose total equals the sum of
\* unit_price x quantity, and returns that total.
C2_TotalIsExactSum ==
    [][(Served("checkout") /\ resp'.status = 200) => CheckoutCreatesOrder(TRUE)]_vars

\* C2 amended: the same, with the total being the sum of unit_price x
\* quantity rounded to 2 decimal places.
C2_TotalIsRoundedSum ==
    [][(Served("checkout") /\ resp'.status = 200) => CheckoutCreatesOrder(FALSE)]_vars

\* C2 witness: a checkout returned the total of a two-line order priced at
\* 9.999 a unit, a total that differs from the exact sum of the lines.
C2_Witness ==
    /\ resp.op = "checkout" /\ resp.status = 200
    /\ \E i \in 1..Len(order) :
         /\ order[i]._id = resp.id
         /\ order[i].total = resp.total
         /\ Len(order[i].items) = 2
         /\ \E k \in 1..2 : order[i].items[k].unit_price = 9999 /\ order[i].items[k].quantity = 2
         /\ order[i].total # ExactSum(order[i].items)

\* C3: when a checkout of user u returns successfully, u's cart document is
\* the one it was before (same _id) and holds no items; and a getOrCreateCart
\* of u served next returns no items and that cart's id, changing no cart.
C3_CheckoutEmptiesCart ==
    [][/\ (Served("checkout") /\ resp'.status = 200) =>
            LET u == resp'.user_id
            IN  /\ CartsOf(cart, u) # {}
                /\ CartsOf(cart', u) = CartsOf(cart, u)
                /\ \A i \in CartsOf(cart', u) :
                     cart'[i]._id = cart[i]._id /\ cart'[i].items = <<>>
       /\ (/\ resp.op = "checkout" /\ resp.status = 200
           /\ Served("get_cart") /\ resp'.user_id = resp.user_id) =>
            /\ resp'.status = 200
            /\ resp'.items = <<>>
            /\ \E i \in CartsOf(cart, resp.user_id) : resp'.id = cart[i]._id
            /\ cart' = cart
      ]_vars

\* C3 witness: a checkout has just returned an order of a two-line cart, and
\* the user's cart is there, empty.
C3_Witness ==
    /\ resp.op = "checkout" /\ resp.status = 200
    /\ \E i \in 1..Len(order) :
         order[i]._id = resp.id /\ order[i].user_id = resp.user_id /\ Len(order[i].items) = 2
    /\ CartsOf(cart, resp.user_id) # {}
    /\ ItemsOf(cart, resp.user_id) = <<>>

\* C4: a checkout of a user with no cart document, or with a cart that has
\* no items, fails with 400 "Cart is empty" and changes no collection.
C4_EmptyCartRejected ==
    [][(/\ Served("checkout")
        /\ (CartsOf(cart, resp'.user_id) = {} \/ ItemsOf(cart, resp'.user_id) = <<>>)) =>
            /\ resp'.status = 400
            /\ resp'.detail = "Cart is empty"
            /\ UNCHANGED <<user, product, cart, order>>
      ]_vars

\* C4 witness: a checkout was refused for a user whose cart document exists
\* and is empty, while another user's cart holds items.
C4_Witness ==
    /\ resp.op = "checkout" /\ resp.status = 400
    /\ CartsOf(cart, resp.user_id) # {}
    /\ ItemsOf(cart, resp.user_id) = <<>>
    /\ \E v \in UserIds \ {resp.user_id} : ItemsOf(cart, v) # <<>>

\* C5: a signup with an email for which an earlier signup succeeded fails
\* with 400 "Email already registered" and leaves the user collection as it
\* was; a signup with an email that no stored user has succeeds and adds
\* exactly one user, with that email, whose id it returns.  The emails for
\* which a signup succeeded are the stored ones, each stored once.
C5_SignupOncePerEmail ==
    [][AuthServed("signup") =>
        LET e == authResp'.email
        IN  /\ (\E p \in Passwords : <<e, p>> \in signedUp) <=> UsersWith(user, e) # {}
            /\ IF \E p \in Passwords : <<e, p>> \in signedUp
               THEN /\ authResp'.status = 400
                    /\ authResp'.detail = "Email already registered"
                    /\ user' = user
               ELSE /\ authResp'.status = 200
                    /\ Len(user') = Len(user) + 1
                    /\ SubSeq(user', 1, Len(user)) = user
                    /\ user'[Len(user')].email = e
                    /\ authResp'.user_id = user'[Len(user')]._id
            /\ Cardinality(UsersWith(user', e)) = 1
      ]_vars

\* C5 witness: two emails are registered and a further signup was refused.
C5_Witness ==
    /\ authResp.op = "signup" /\ authResp.status = 400
    /\ Len(user) = 2
    /\ UsersWith(user, authResp.email) # {}

\* C6: a login succeeds exactly when an earlier signup with that email and
\* that password succeeded; it then returns the id of the stored user of that
\* email and a token for that id, and otherwise fails with 401 "Invalid
\* credentials".  A login changes no collection.
C6_LoginIffSignedUp ==
    [][AuthServed("login") =>
        LET e == authResp'.email
            p == authResp'.password
        IN  /\ authResp'.status = 200 <=> <<e, p>> \in signedUp
            /\ authResp'.status = 200 =>
                 \E i \in UsersWith(user, e) :
                    /\ authResp'.user_id = user[i]._id
                    /\ authResp'.token[2] = user[i]._id
            /\ authResp'.status # 200 =>
                 authResp'.status = 401 /\ authResp'.detail = "Invalid credentials"
            /\ UNCHANGED <<user, product, cart, order>>
      ]_vars

\* C6 witness: with two users registered, a login of the second one succeeded.
C6_Witness ==
    /\ authResp.op = "login" /\ authResp.status = 200
    /\ Len(user) = 2
    /\ authResp.user_id = 2
    /\ <<authResp.email, authResp.password>> \in signedUp

\* C7: a getOrCreateCart of a user with no cart adds exactly one empty cart of
\* that user and returns its fresh id; a getOrCreateCart of a user who has a
\* cart returns that cart's id and items and changes no cart.  No request
\* (getOrCreateCart, addItem, checkout) changes the id or owner of a cart or
\* gives a second cart to a user who has one.
C7_GetOrCreateCartStable ==
    [][/\ Served("get_cart") =>
            LET u == resp'.user_id
            IN  IF CartsOf(cart, u) = {}
                THEN /\ Len(cart') = Len(cart) + 1
                     /\ SubSeq(cart', 1, Len(cart)) = cart
                     /\ cart'[Len(cart')].user_id = u
                     /\ cart'[Len(cart')].items = <<>>
                     /\ resp'.id = cart'[Len(cart')]._id
                     /\ \A i \in 1..Len(cart) : cart[i]._id # resp'.id
                     /\ resp'.items = <<>>
                ELSE /\ cart' = cart
                     /\ \E i \in CartsOf(cart, u) :
                          resp'.id = cart[i]._id /\ resp'.items = cart[i].items
       /\ served' = served + 1 =>
            /\ Len(cart') >= Len(cart)
            /\ \A i \in 1..Len(cart) :
                 cart'[i]._id = cart[i]._id /\ cart'[i].user_id = cart[i].user_id
            /\ \A u \in UserIds : CartsOf(cart, u) # {} => CartsOf(cart', u) = CartsOf(cart, u)
      ]_vars

\* C7 witness: a getOrCreateCart returned the id of the user's only cart
\* after an order of that user had been created from it.
C7_Witness ==
    /\ resp.op = "get_cart" /\ resp.status = 200
    /\ \E i \in 1..Len(order) : order[i].user_id = resp.user_id
    /\ Cardinality(CartsOf(cart, resp.user_id)) = 1
    /\ \A i \in CartsOf(cart, resp.user_id) : cart[i]._id = resp.id
    /\ Len(cart) = 2

\* C8: a checkout of a non-empty cart succeeds and persists an order even if
\* some product_id is malformed or names no product: such a line gets title
\* "Item" and unit_price 0 and adds 0 to the total, and every other line gets
\* its product's title and price.
C8_UnresolvedItemDefaults ==
    [][(Served("checkout") /\ ItemsOf(cart, resp'.user_id) # <<>>) =>
        LET items == ItemsOf(cart, resp'.user_id)
            o == order'[Len(order')]
        IN  /\ resp'.status = 200
            /\ Len(order') = Len(order) + 1
            /\ Len(o.items) = Len(items)
            /\ \A k \in 1..Len(items) :
                 IF Resolves(product, items[k].product_id)
                 THEN /\ o.items[k].title = ProductAt(product, items[k].product_id).title
                      /\ o.items[k].unit_price = ProductAt(product, items[k].product_id).price
                 ELSE /\ o.items[k].title = "Item"
                      /\ o.items[k].unit_price = 0
                      /\ o.items[k].unit_price * o.items[k].quantity = 0
      ]_vars

\* C8 witness: a persisted order holds a defaulted line of a malformed
\* product_id next to a line priced from its product.
C8_Witness ==
    /\ resp.op = "checkout" /\ resp.status = 200
    /\ \E i \in 1..Len(order) : \E j, k \in 1..Len(order[i].items) :
         /\ order[i].items[j].product_id = Malformed
         /\ order[i].items[j].title = "Item"
         /\ order[i].items[j].unit_price = 0
         /\ order[i].items[k].title = "Tee"
         /\ order[i].items[k].unit_price > 0
         /\ order[i].total > 0

\* C9: in every reachable state, also when the store operations of the
\* requests interleave, there is at most one cart document per user_id.
C9_OneCartPerUser ==
    \A u \in UserIds : Cardinality(CartsOf(cart, u)) <= 1

\* C10: every line of every persisted cart has quantity >= 1.
C10_CartQuantityAtLeastOne ==
    \A i \in 1..Len(cart) : \A k \in 1..Len(cart[i].items) : cart[i].items[k].quantity >= 1

\* C11: in every reachable state, also when the existence check and the
\* insert of signups for the same email interleave, no two user documents
\* have the same email.
C11_UniqueEmails ==
    \A i, j \in 1..Len(user) : user[i].email = user[j].email => i = j

\* What a client sees of an auth response: everything but the echoed request.
Outcome(r) == [status |-> r.status, detail |-> r.detail, user_id |-> r.user_id,
               name |-> r.name, token |-> r.token]

\* C13: a login that fails gives the same outcome, status 401 with the message
\* "Invalid credentials" and nothing else, whether no user has the email or a
\* user has it and the password is wrong; and a login with an unregistered
\* email, or with a registered one and another password than the one signed
\* up with, does fail.
C13_LoginFailuresIdentical ==
    [][AuthServed("login") =>
        LET e == authResp'.email
            p == authResp'.password
            failure == [status |-> 401, detail |-> "Invalid credentials", user_id |-> 0,
                        name |-> None, token |-> NoToken]
        IN  /\ UsersWith(user, e) = {} => Outcome(authResp') = failure
            /\ (UsersWith(user, e) # {} /\ <<e, p>> \notin signedUp) =>
                 Outcome(authResp') = failure
      ]_vars

\* C13 witness: a login with a registered email and a wrong password failed
\* while another email stayed unregistered.
C13_Witness ==
    /\ authResp.op = "login" /\ authResp.status = 401
    /\ UsersWith(user, authResp.email) # {}
    /\ <<authResp.email, authResp.password>> \notin signedUp
    /\ Len(user) = 1

\* The order collection grew by exactly one order, of user u, whose lines
\* mirror the cart lines items.
OneOrderAdded(u, items) ==
    LET o == order'[Len(order')]
    IN  /\ Len(order') = Len(order) + 1
        /\ SubSeq(order', 1, Len(order)) = order
        /\ o.user_id = u
        /\ Len(o.items) = Len(items)
        /\ \A k \in 1..Len(items) :
             /\ o.items[k].product_id = items[k].product_id
             /\ o.items[k].quantity = items[k].quantity

\* C12 as stated: the order collection changes only by a checkout that
\* returns successfully, which appends one order with status "paid"; every
\* order already there stays as it is, in its place.
C12_OrdersOnlyBySuccessfulCheckout ==
    [][/\ Len(order') >= Len(order)
       /\ SubSeq(order', 1, Len(order)) = order
       /\ order' # order =>
            /\ Len(order') = Len(order) + 1
            /\ order'[Len(order')].status = "paid"
            /\ Served("checkout")
            /\ resp'.status = 200
      ]_vars

\* C12 amended: the order collection changes only by a checkout (one that
\* returns successfully, or one that ends as an internal error after its
\* order insert), which appends one order with status "paid"; every order
\* already there stays as it is, in its place.
C12_OrdersOnlyByCheckout ==
    [][/\ Len(order') >= Len(order)
       /\ SubSeq(order', 1, Len(order)) = order
       /\ order' # order =>
            /\ Len(order') = Len(order) + 1
            /\ order'[Len(order')].status = "paid"
            /\ Served("checkout")
            /\ resp'.status \in {200, 500}
      ]_vars

\* C12 witness: an order is persisted, paid, and is still there unchanged
\* after further requests of its owner, among them a checkout that returned a
\* second, different order.
C12_Witness ==
    /\ Len(order) = 2
    /\ order[1].status = "paid"
    /\ order[1].user_id = order[2].user_id
    /\ order[1].items # order[2].items
    /\ resp.op = "checkout" /\ resp.status = 200

\* C16: a checkout whose cart-clear call fails ends as an internal error with
\* the new order persisted and the cart unchanged, all its items kept; a
\* checkout that fails at the cart read, a product read or the order insert
\* leaves no order and the cart unchanged; and a checkout of the same user
\* served right after a failure at the cart clear does not find the cart
\* empty and, when it succeeds, adds a second order with the same items.
C16_NoRollback ==
    [][/\ (Served("checkout") /\ resp'.status = 500) =>
            /\ cart' = cart
            /\ IF resp'.detail = "cart.update_one"
               THEN /\ ItemsOf(cart, resp'.user_id) # <<>>
                    /\ OneOrderAdded(resp'.user_id, ItemsOf(cart, resp'.user_id))
               ELSE order' = order
       /\ (/\ resp.op = "checkout" /\ resp.status = 500 /\ resp.detail = "cart.update_one"
           /\ Served("checkout") /\ resp'.user_id = resp.user_id) =>
            /\ resp'.status # 400
            /\ resp'.status = 200 =>
                 /\ OneOrderAdded(resp.user_id, ItemsOf(cart, resp.user_id))
                 /\ order'[Len(order')].items = order[Len(order)].items
                 /\ order'[Len(order')]._id # order[Len(order)]._id
      ]_vars

\* C16 witness: three requests were served, the last one a successful
\* checkout, and two orders of the same user hold the same two lines: the
\* checkout in between failed at the cart clear.
C16_Witness ==
    /\ served = 3
    /\ resp.op = "checkout" /\ resp.status = 200
    /\ Len(order) = 2
    /\ order[1].user_id = order[2].user_id
    /\ order[1].items = order[2].items
    /\ ItemsOf(cart, resp.user_id) = <<>>

\* Worker w takes the step from position from to position to.
Moves(w, from, to) == req[w].pc = from /\ req'[w].pc = to

\* C14: the write of an addItem that found a cart replaces the stored item
\* sequence by the sequence it read with its item appended, whatever the cart
\* holds by then, and the call returns that sequence with success; so of two
\* addItem calls that both read before either writes, the later write wins
\* and the cart loses the other call's item.
C14_AddItemLastWriteWins ==
    [][\A w \in Workers :
         (Moves(w, "add_to_cart", "idle") /\ req[w].c.found) =>
            LET written == Append(req[w].c.items, req[w].item)
            IN  /\ Len(cart') = Len(cart)
                /\ \A i \in 1..Len(cart) :
                     IF cart[i]._id = req[w].c._id
                     THEN cart'[i] = [cart[i] EXCEPT !.items = written]
                     ELSE cart'[i] = cart[i]
                /\ resp'.status = 200
                /\ resp'.items = written
      ]_vars

\* C14 witness: both workers returned success from an addItem on the same
\* cart, each returning the one earlier line and its own item, no checkout
\* ran, and the cart holds the sequence of one of them, without the item of
\* the other.
C14_Witness ==
    \E w, v \in Workers :
        /\ w # v
        /\ req[w].pc = "idle" /\ req[v].pc = "idle"
        /\ req[w].last.op = "add_to_cart" /\ req[w].last.status = 200
        /\ req[v].last.op = "add_to_cart" /\ req[v].last.status = 200
        /\ req[w].last.id = req[v].last.id
        /\ Len(req[w].last.items) = 2 /\ Len(req[v].last.items) = 2
        /\ req[w].last.items[1] = req[v].last.items[1]
        /\ order = <<>>
        /\ \E i \in 1..Len(cart) :
             /\ cart[i]._id = req[v].last.id
             /\ cart[i].items = req[v].last.items
             /\ \A k \in 1..Len(cart[i].items) : cart[i].items[k] # req[w].last.arg

\* C15: the order insert of a checkout appends an order of the lines the
\* checkout read, whether or not the cart still holds them, and the checkout
\* then clears the cart and returns that order's id with success; so two
\* checkouts that read the same non-empty cart each create an order of its
\* items and both succeed.
C15_CheckoutInsertsWhatItRead ==
    [][\A w \in Workers :
         /\ Moves(w, "checkout_loop", "checkout_clear") =>
              /\ OneOrderAdded(req[w].user_id, req[w].c.items)
              /\ req'[w].id = order'[Len(order')]._id
         /\ Moves(w, "checkout_clear", "idle") =>
              /\ resp'.op = "checkout" /\ resp'.status = 200
              /\ resp'.id = req[w].id
              /\ order' = order
      ]_vars

\* C15 witness: after an addItem, both workers returned success from a
\* checkout of the same user, with different order ids, and the two orders
\* hold the same items.
C15_Witness ==
    \E w, v \in Workers :
        /\ w # v
        /\ served = 3
        /\ req[w].pc = "idle" /\ req[v].pc = "idle"
        /\ req[w].last.op = "checkout" /\ req[w].last.status = 200
        /\ req[v].last.op = "checkout" /\ req[v].last.status = 200
        /\ req[w].last.user_id = req[v].last.user_id
        /\ req[w].last.id # req[v].last.id
        /\ Len(order) = 2
        /\ order[1].user_id = order[2].user_id
        /\ order[1].items = order[2].items
        /\ order[1].items # <<>>

\* The cart line an order line was made from.
CartLine(oi) == [product_id |-> oi.product_id, quantity |-> oi.quantity,
                 size |-> oi.size, color |-> oi.color]

\* C17: when one addItem and one checkout of the same user, started on a cart
\* of one line, have both returned success, the added item is a line of the
\* cart or of the created order, and the lines of the order and of the cart
\* are together the two lines there are: none is lost and none is in both.
C17_AddedItemConserved ==
    (/\ req[Adder].pc = "idle" /\ req[Buyer].pc = "idle"
     /\ req[Adder].last.op = "add_to_cart" /\ req[Adder].last.status = 200
     /\ req[Buyer].last.op = "checkout" /\ req[Buyer].last.status = 200
     /\ req[Adder].last.user_id = req[Buyer].last.user_id) =>
        \E i \in 1..Len(order) :
            /\ order[i]._id = req[Buyer].last.id
            /\ LET ordered == [k \in 1..Len(order[i].items) |-> CartLine(order[i].items[k])]
                   lines == ordered \o ItemsOf(cart, req[Buyer].last.user_id)
               IN  /\ \E k \in 1..Len(lines) : lines[k] = req[Adder].last.arg
                   /\ Len(lines) = 2

\* C18: every persisted order has a total of at least 0, and every line of
\* it a unit price of at least 0 and a quantity of at least 1.
C18_OrdersNonNegative ==
    \A i \in 1..Len(order) :
        /\ order[i].total >= 0
        /\ \A k \in 1..Len(order[i].items) :
              /\ order[i].items[k].unit_price >= 0
              /\ order[i].items[k].quantity >= 1

====
